---- MODULE Spec2Model ----
(***************************************************************************)
(* A model of keras_nlp.samplers.TopPSampler (top_p_sampler.py) and of     *)
(* keras_nlp.layers.RotaryEmbedding (rotary_embedding.py).                 *)
(*                                                                         *)
(* Probabilities are fixed-point numbers: the integer w stands for w/One.  *)
(* The threshold p is in the same unit.  Sequences are 1-based; vocabulary *)
(* ids and sorted positions keep the 0-based numbering of the source.      *)
(***************************************************************************)
EXTENDS Integers, Sequences, FiniteSets, TLC

\* ------------------------------------------------------------- bounds
Vocab == 3        \* vocab_size of the probability rows
MaxW == 2         \* the largest single entry of a row, in fixed-point units
MaxCalls == 2     \* calls the generation loop makes on one sampler

One == MaxW       \* the fixed-point value of probability 1.0

Instances == {"A", "B"}
Seeds == 0..(Vocab - 1)

VARIABLES
    sampler,         \* TopPSampler.p, .k, .seed of each instance
    seed_generator,  \* TopPSampler.seed_generator of each instance
    result,          \* the locals of each instance's last get_next_token
    tape,            \* the probability rows the generation loop has produced
    tokens           \* the tokens each instance has returned to the loop

samplerVars == <<sampler, seed_generator, result, tape, tokens>>

VARIABLES
    layer,    \* the RotaryEmbedding's attributes
    inputs,   \* the tensor of the layer's call
    call      \* the locals and the outcome of that call

rotaryVars == <<layer, inputs, call>>
vars == <<samplerVars, rotaryVars>>

\* ------------------------------------------------------------ helpers
RECURSIVE SumSeq(_)
SumSeq(s) == IF s = <<>> THEN 0 ELSE s[1] + SumSeq(Tail(s))

Rows == [1..Vocab -> 0..MaxW]

\* k = None is <<>>, k = n is <<n>>.
KNone == <<>>

\* ----------------------------------------------------- library calls
\* ops.top_k(x, k, sorted=True): the k largest entries in descending order
\* with their 0-based indices, the lower index first among equal entries.
\* A k that is negative or larger than the row raises.
ArgMax(row, left) ==
    CHOOSE j \in left : \A i \in left : row[j] > row[i] \/ (row[j] = row[i] /\ j <= i)

RECURSIVE TopKFrom(_, _, _)
TopKFrom(row, left, k) ==
    IF k = 0 THEN <<>>
    ELSE LET j == ArgMax(row, left)
         IN  <<j>> \o TopKFrom(row, left \ {j}, k - 1)

TopK(row, k) ==
    IF k < 0 \/ k > Len(row)
    THEN [error |-> TRUE, values |-> <<>>, indices |-> <<>>]
    ELSE LET order == TopKFrom(row, 1..Len(row), k)
         IN  [error   |-> FALSE,
              values  |-> [j \in 1..k |-> row[order[j]]],
              indices |-> [j \in 1..k |-> order[j] - 1]]

\* ops.cumsum(x, axis=-1)
Cumsum(x) == [j \in 1..Len(x) |-> SumSeq(SubSeq(x, 1, j))]

\* ops.log: log(0) is -infinity, any other weight has a finite logarithm
\* (kept as the weight it is the logarithm of).
Log(x) == [j \in 1..Len(x) |-> [finite |-> x[j] > 0, weight |-> x[j]]]

\* SeedGenerator(seed): the generator's state is (seed, counter).
SeedGenerator(seed) == [seed |-> seed, counter |-> 0]

\* The number the random stream yields in state g, and the state after it.
Uniform(g) == g.seed + g.counter
Advance(g) == [g EXCEPT !.counter = @ + 1]

\* random.categorical(logits, 1, seed): one 0-based class drawn with the
\* stream's number u.  A class of logit -infinity is never drawn while some
\* class is finite; with no finite class the class drawn is arbitrary, and
\* with no class at all the draw raises.
Categorical(logits, u) ==
    LET n      == Len(logits)
        finite == SelectSeq([j \in 1..n |-> j], LAMBDA j : logits[j].finite)
    IN  IF n = 0 THEN [error |-> TRUE, class |-> 0]
        ELSE IF finite = <<>> THEN [error |-> FALSE, class |-> u % n]
        ELSE [error |-> FALSE, class |-> finite[(u % Len(finite)) + 1] - 1]

\* ---------------------------------------------- TopPSampler.__init__
TopPSampler(p, k, seed) == [p |-> p, k |-> k, seed |-> seed]

\* ------------------------------------------ TopPSampler.get_next_token
\* cutoff = ops.shape(probabilities)[1], or self.k when k is set
Cutoff(self, probabilities) ==
    IF sampler[self].k # KNone THEN sampler[self].k[1] ELSE Len(probabilities)

\* (a strict comparison in place of <=)
KeepMaskStrict(cumulative_probabilities, p) ==
    [j \in 1..Len(cumulative_probabilities) |-> cumulative_probabilities[j] < p]

\* keep_mask = cumulative_probabilities <= self.p
KeepMask(cumulative_probabilities, p) ==
    [j \in 1..Len(cumulative_probabilities) |-> cumulative_probabilities[j] <= p]

\* (the mask used without the shift)
NoShiftKeepMask(keep_mask) == keep_mask

\* shifted_keep_mask = concatenate([ones_like(keep_mask[:, :1]), keep_mask[:, :-1]])
ShiftedKeepMask(keep_mask) ==
    LET n == Len(keep_mask)
    IN  [j \in 1..(IF n = 0 THEN 0 ELSE 1) |-> TRUE] \o SubSeq(keep_mask, 1, n - 1)

\* (the mask not applied)
FilterNothing(shifted_keep_mask, sorted_preds) == sorted_preds

\* probabilities = ops.where(shifted_keep_mask, sorted_preds, zeros)
Filter(shifted_keep_mask, sorted_preds) ==
    [j \in 1..Len(sorted_preds) |-> IF shifted_keep_mask[j] THEN sorted_preds[j] ELSE 0]

\* (one generator shared by every instance)
SharedSeedOf(self) == "A"

\* seed=self.seed_generator: the generator the draw consumes
SeedOf(self) == self

NoResult ==
    [status |-> "none", probabilities |-> <<>>, sorted_preds |-> <<>>,
     sorted_indices |-> <<>>, cumulative_probabilities |-> <<>>,
     shifted_keep_mask |-> <<>>, filtered |-> <<>>, drawn |-> FALSE,
     sorted_next_token |-> 0, output |-> 0]

\* The locals of one call on `self` with the row `probabilities`.
GetNextTokenLocals(self, probabilities) ==
    LET top     == TopK(probabilities, Cutoff(self, probabilities))
        cum     == Cumsum(top.values)
        shifted == ShiftedKeepMask(KeepMask(cum, sampler[self].p))
        kept    == Filter(shifted, top.values)
        draw    == Categorical(Log(kept), Uniform(seed_generator[SeedOf(self)]))
        base    == [NoResult EXCEPT !.probabilities = probabilities]
    IN  IF top.error THEN [base EXCEPT !.status = "error"]
        ELSE LET locals == [base EXCEPT !.sorted_preds = top.values,
                                        !.sorted_indices = top.indices,
                                        !.cumulative_probabilities = cum,
                                        !.shifted_keep_mask = shifted,
                                        !.filtered = kept,
                                        !.drawn = TRUE]
             IN  IF draw.error THEN [locals EXCEPT !.status = "error"]
                 ELSE [locals EXCEPT !.status = "ok",
                                     !.sorted_next_token = draw.class,
                                     !.output = top.indices[draw.class + 1]]

\* One call of get_next_token: random.categorical, when the call reaches it,
\* takes the next seed of the generator it is given, which advances it.
GetNextToken(self, probabilities) ==
    LET locals == GetNextTokenLocals(self, probabilities)
        g      == SeedOf(self)
    IN  /\ result' = [result EXCEPT ![self] = locals]
        /\ seed_generator' =
               IF locals.drawn
               THEN [seed_generator EXCEPT ![g] = Advance(@)]
               ELSE seed_generator
        /\ UNCHANGED sampler


\* =========================================================== RotaryEmbedding
\* A tensor is [shape, data]: data holds the entries in row-major order.
\* Coordinates are 0-based, as in the source.
RECURSIVE Prod(_)
Prod(shape) == IF shape = <<>> THEN 1 ELSE shape[1] * Prod(Tail(shape))

RECURSIVE Unravel(_, _)
Unravel(shape, n) ==
    IF shape = <<>> THEN <<>>
    ELSE LET stride == Prod(Tail(shape))
         IN  <<n \div stride>> \o Unravel(Tail(shape), n % stride)

RECURSIVE Ravel(_, _)
Ravel(shape, idx) ==
    IF shape = <<>> THEN 0
    ELSE idx[1] * Prod(Tail(shape)) + Ravel(Tail(shape), Tail(idx))

Build(shape, F(_)) ==
    [shape |-> shape, data |-> [n \in 1..Prod(shape) |-> F(Unravel(shape, n - 1))]]

At(t, idx) == t.data[Ravel(t.shape, idx) + 1]

NoTensor == [shape |-> <<>>, data |-> <<>>]

\* An axis argument of a rank-r operation: -r..r-1, negative from the end.
ValidAxis(axis, r) == 0 - r <= axis /\ axis < r
Canon(axis, r) == IF axis < 0 THEN axis + r ELSE axis

\* ----------------------------------------------------- library calls
\* ops.arange(start, stop, step)
Arange(start, stop, step) ==
    [j \in 1..((stop - start + step - 1) \div step) |-> start + (j - 1) * step]

\* ops.split(tensor, 2, axis): the two halves of `axis`.
CanSplit(t, axis) ==
    /\ ValidAxis(axis, Len(t.shape))
    /\ t.shape[Canon(axis, Len(t.shape)) + 1] % 2 = 0

Split(t, axis) ==
    LET a    == Canon(axis, Len(t.shape)) + 1
        half == t.shape[a] \div 2
        sh   == [t.shape EXCEPT ![a] = half]
    IN  <<Build(sh, LAMBDA idx : At(t, idx)),
          Build(sh, LAMBDA idx : At(t, [idx EXCEPT ![a] = @ + half]))>>

\* ops.concatenate((x, y), axis)
CanConcatenate(x, y, axis) ==
    /\ Len(x.shape) = Len(y.shape)
    /\ ValidAxis(axis, Len(x.shape))
    /\ \A d \in 1..Len(x.shape) :
           d # Canon(axis, Len(x.shape)) + 1 => x.shape[d] = y.shape[d]

Concatenate(x, y, axis) ==
    LET a == Canon(axis, Len(x.shape)) + 1
    IN  Build([x.shape EXCEPT ![a] = @ + y.shape[a]],
              LAMBDA idx : IF idx[a] < x.shape[a] THEN At(x, idx)
                           ELSE At(y, [idx EXCEPT ![a] = @ - x.shape[a]]))

\* ops.expand_dims(x, axis), axis in 0..rank: the entries keep their order.
ExpandDims(x, axis) ==
    [shape |-> SubSeq(x.shape, 1, axis) \o <<1>> \o SubSeq(x.shape, axis + 1, Len(x.shape)),
     data  |-> x.data]

\* Broadcasting of x * y and x + y: shapes are aligned at the last axis, a
\* missing or unit dimension stretches, any other mismatch raises.
DimFromEnd(shape, e) == IF e <= Len(shape) THEN shape[Len(shape) - e + 1] ELSE 1

CanBroadcast(sx, sy) ==
    \A e \in 1..Len(sx) :
        \/ DimFromEnd(sx, e) = DimFromEnd(sy, e)
        \/ DimFromEnd(sx, e) = 1
        \/ DimFromEnd(sy, e) = 1

BroadcastShape(sx, sy) ==
    LET r == IF Len(sx) >= Len(sy) THEN Len(sx) ELSE Len(sy)
    IN  [d \in 1..r |->
            LET a == DimFromEnd(sx, r - d + 1)
                b == DimFromEnd(sy, r - d + 1)
            IN  IF a = 1 THEN b ELSE a]

\* The entry of t that lands on coordinate idx of the broadcast result.
BroadcastAt(t, idx) ==
    LET r == Len(t.shape)
        o == Len(idx) - r
    IN  At(t, [d \in 1..r |-> IF t.shape[d] = 1 THEN 0 ELSE idx[o + d]])

Multiply(x, y) ==
    Build(BroadcastShape(x.shape, y.shape),
          LAMBDA idx : BroadcastAt(x, idx) * BroadcastAt(y, idx))

Add(x, y) ==
    Build(BroadcastShape(x.shape, y.shape),
          LAMBDA idx : BroadcastAt(x, idx) + BroadcastAt(y, idx))

Negative(x) == [shape |-> x.shape, data |-> [n \in 1..Len(x.data) |-> 0 - x.data[n]]]

\* ops.einsum("i, j -> ij", u, v) of two vectors (sequences)
Outer(u, v) == Build(<<Len(u), Len(v)>>, LAMBDA idx : u[idx[1] + 1] * v[idx[2] + 1])

\* Reals.  An angle is a whole number of steps round a circle of exact
\* rational points (cos, sin), each given in fifths; step 0 is angle 0.
TrigTable ==
    << <<5, 0>>, <<4, 3>>, <<3, 4>>, <<0, 5>>, <<0 - 3, 4>>, <<0 - 4, 3>>,
       <<0 - 5, 0>>, <<0 - 4, 0 - 3>>, <<0 - 3, 0 - 4>>, <<0, 0 - 5>>,
       <<3, 0 - 4>>, <<4, 0 - 3>> >>
TurnSteps == Len(TrigTable)
\* steps in one radian (a turn is 2 pi, about 6, radians)
RadianSteps == TurnSteps \div 6
\* the fixed-point value of 1.0 in a cosine or a sine
TrigOne == TrigTable[1][1]

\* ops.cos, ops.sin
Cos(x) == [shape |-> x.shape,
           data |-> [n \in 1..Len(x.data) |-> TrigTable[(x.data[n] % TurnSteps) + 1][1]]]
Sin(x) == [shape |-> x.shape,
           data |-> [n \in 1..Len(x.data) |-> TrigTable[(x.data[n] % TurnSteps) + 1][2]]]

\* b ** e, cut off above cap (no intermediate value exceeds cap * b)
RECURSIVE PowCapped(_, _, _)
PowCapped(b, e, cap) ==
    IF e = 0 THEN 1
    ELSE LET r == PowCapped(b, e - 1, cap)
         IN  IF r > cap THEN r ELSE r * b

\* --------------------------------------------- RotaryEmbedding.__init__
RotaryEmbedding(max_wavelength, scaling_factor, sequence_axis, feature_axis) ==
    [max_wavelength |-> max_wavelength, scaling_factor |-> scaling_factor,
     sequence_axis |-> sequence_axis, feature_axis |-> feature_axis]

\* ----------------------------- RotaryEmbedding._compute_cos_sin_embedding
\* inverse_freq = 1.0 / (max_wavelength ** ((freq_range / scaling_factor) / rotary_dim)),
\* in steps per position: the largest v with
\* v ** den * max_wavelength ** num <= RadianSteps ** den, where
\* num / den = freq_range[i] / (scaling_factor * rotary_dim).
InverseFreq(freq, rotary_dim) ==
    LET den  == layer.scaling_factor * rotary_dim
        top  == PowCapped(RadianSteps, den, PowCapped(RadianSteps, den, 0) + 1)
        full == PowCapped(RadianSteps, den, top)
        wave == PowCapped(layer.max_wavelength, freq, full)
        fits == {v \in 0..RadianSteps :
                    v = 0 \/ (wave <= full /\ PowCapped(v, den, full) * wave <= full)}
    IN  CHOOSE v \in fits : \A w \in fits : w <= v

\* (positions counted from 1)
PositionsFromOne(seq_len) == Arange(1, seq_len + 1, 1)

\* tensor = ops.arange(seq_len): the positions
Positions(seq_len) == Arange(0, seq_len, 1)

\* def get_axis(axis): return axis if axis > 0 else len(x.shape) + axis
get_axis(axis, rank) == IF axis > 0 THEN axis ELSE rank + axis

\* for axis in range(len(x.shape)): expand_dims where axis is neither
RECURSIVE ExpandLoop(_, _, _, _, _)
ExpandLoop(embedding, axis, rank, sequence_axis, feature_axis) ==
    IF axis >= rank THEN embedding
    ELSE ExpandLoop(
             IF axis # sequence_axis /\ axis # feature_axis
             THEN ExpandDims(embedding, axis) ELSE embedding,
             axis + 1, rank, sequence_axis, feature_axis)

\* (-x2, x1) without the sign
HalfRotUnsigned(x1, x2, axis) == Concatenate(x2, x1, axis)

\* half_rot_tensor = ops.concatenate((-x2, x1), axis=self.feature_axis)
HalfRot(x1, x2, axis) == Concatenate(Negative(x2), x1, axis)

NoCall ==
    [status |-> "none", rotary_dim |-> 0, sequence_axis |-> 0, feature_axis |-> 0,
     embedding_shape |-> <<>>, output |-> NoTensor]

\* The locals of call(inputs); a step that raises ends the call.
CallLocals(x) ==
    LET rank         == Len(x.shape)
        rotary_dim   == x.shape[rank]
        freq_range   == Arange(0, rotary_dim, 2)
        inverse_freq == [j \in 1..Len(freq_range) |-> InverseFreq(freq_range[j], rotary_dim)]
        seq_len      == x.shape[Canon(layer.sequence_axis, rank) + 1]
        freq         == Outer(Positions(seq_len), inverse_freq)
        feature_axis == get_axis(layer.feature_axis, rank)
        sequence_axis == get_axis(layer.sequence_axis, rank)
        embedding    == ExpandLoop(Concatenate(freq, freq, layer.feature_axis),
                                   0, rank, sequence_axis, feature_axis)
        halves       == Split(x, layer.feature_axis)
        half_rot     == HalfRot(halves[1], halves[2], layer.feature_axis)
        started      == [NoCall EXCEPT !.rotary_dim = rotary_dim]
        embedded     == [started EXCEPT !.sequence_axis = sequence_axis,
                                        !.feature_axis = feature_axis,
                                        !.embedding_shape = embedding.shape]
    IN  IF ~ValidAxis(layer.sequence_axis, rank)
             \/ ~CanConcatenate(freq, freq, layer.feature_axis)
        THEN [started EXCEPT !.status = "error"]
        ELSE IF ~CanSplit(x, layer.feature_axis)
                  \/ ~CanBroadcast(x.shape, embedding.shape)
        THEN [embedded EXCEPT !.status = "error"]
        ELSE [embedded EXCEPT
                 !.status = "ok",
                 !.output = Add(Multiply(x, Cos(embedding)),
                                Multiply(half_rot, Sin(embedding)))]

\* RotaryEmbedding.call
Call(x) ==
    /\ inputs' = x
    /\ call' = CallLocals(x)
    /\ UNCHANGED layer

\* ---------------------------------- specification, RotaryEmbedding
MaxRank == 3      \* the largest rank of an input tensor
MaxDim == 4       \* the largest size of one axis
MaxElems == 8     \* the largest number of entries of an input tensor

RECURSIVE ShapesOfRank(_)
ShapesOfRank(r) ==
    IF r = 0 THEN {<<>>}
    ELSE {<<d>> \o sh : d \in 1..MaxDim, sh \in ShapesOfRank(r - 1)}

Shapes ==
    {sh \in UNION {ShapesOfRank(r) : r \in 2..MaxRank} : Prod(sh) <= MaxElems}

\* Input tensors: the entries cycle through 0..m-1 from v on.
Inputs ==
    {[shape |-> sh, data |-> [n \in 1..Prod(sh) |-> (n - 1 + v) % m]] :
        sh \in Shapes, m \in {2, 3}, v \in {0, 1}}

Wavelengths == {4, 10000}
ScalingFactors == {1, 2}
AxisValues == (0 - MaxRank)..(MaxRank - 1)

DefaultSampler ==
    /\ sampler = [i \in Instances |-> TopPSampler(1, KNone, 0)]
    /\ seed_generator = [i \in Instances |-> SeedGenerator(0)]
    /\ result = [i \in Instances |-> NoResult]
    /\ tape = <<>>
    /\ tokens = [i \in Instances |-> <<>>]

InitRotary ==
    /\ \E w \in Wavelengths, f \in ScalingFactors, sa \in AxisValues, fa \in AxisValues :
           layer = RotaryEmbedding(w, f, sa, fa)
    /\ inputs = NoTensor
    /\ call = NoCall
    /\ DefaultSampler

NextRotary ==
    \E x \in Inputs :
        /\ call.status = "none"
        /\ Call(x)
        /\ UNCHANGED samplerVars

SpecRotary == InitRotary /\ [][NextRotary]_vars

\* The layer as constructed by default and not called.
DefaultLayer ==
    /\ layer = RotaryEmbedding(10000, 1, 1, 0 - 1)
    /\ inputs = NoTensor
    /\ call = NoCall

\* ------------------------------------- specifications, TopPSampler
PValues == (0 - 1)..(One + 1)
KValues == {KNone} \cup {<<n>> : n \in 0..(Vocab + 1)}

\* A sampler of any configuration, called once with any row.
Init ==
    /\ \E p \in PValues, k \in KValues, seed \in Seeds :
           /\ sampler = [i \in Instances |-> TopPSampler(p, k, seed)]
           /\ seed_generator = [i \in Instances |-> SeedGenerator(seed)]
    /\ result = [i \in Instances |-> NoResult]
    /\ tape = <<>>
    /\ tokens = [i \in Instances |-> <<>>]
    /\ DefaultLayer

Next ==
    \E probabilities \in Rows :
        /\ result["A"].status = "none"
        /\ GetNextToken("A", probabilities)
        /\ UNCHANGED <<tape, tokens, rotaryVars>>

Spec == Init /\ [][Next]_vars

\* Two samplers of one configuration, each with its own seed, fed by the
\* generation loop with the same rows in the same order.
ValidK == {KNone} \cup {<<n>> : n \in 1..Vocab}

FeedRows ==
    {[j \in 1..Vocab |-> w] : w \in 1..MaxW}
        \cup {[j \in 1..Vocab |-> IF j = Vocab THEN MaxW ELSE 0]}

InitSeed ==
    /\ \E p \in 0..One, k \in ValidK, seedA \in Seeds, seedB \in Seeds :
           LET seedOf == [i \in Instances |-> IF i = "A" THEN seedA ELSE seedB]
           IN  /\ sampler = [i \in Instances |-> TopPSampler(p, k, seedOf[i])]
               /\ seed_generator = [i \in Instances |-> SeedGenerator(seedOf[i])]
    /\ result = [i \in Instances |-> NoResult]
    /\ tape = <<>>
    /\ tokens = [i \in Instances |-> <<>>]
    /\ DefaultLayer

\* The loop's n-th step for `self`: it hands over the n-th row of the tape
\* (a new row when `self` is the first to get there) and keeps the token.
GenerateStep(self) ==
    LET n == Len(tokens[self]) + 1
    IN  \E probabilities \in FeedRows :
            /\ n <= MaxCalls
            /\ n <= Len(tape) => probabilities = tape[n]
            /\ GetNextToken(self, probabilities)
            /\ tape' = IF n <= Len(tape) THEN tape ELSE Append(tape, probabilities)
            /\ tokens' = [tokens EXCEPT ![self] = Append(@, result'[self].output)]
            /\ UNCHANGED rotaryVars

NextSeed == \E self \in Instances : GenerateStep(self)

SpecSeed == InitSeed /\ [][NextSeed]_vars


\* ------------------------------------------------- claims, TopPSampler
Last == result["A"]
Called == Last.status # "none"
MaskBuilt == Last.shifted_keep_mask # <<>>
Kept == {j \in 1..Len(Last.shifted_keep_mask) : Last.shifted_keep_mask[j]}
Mass(m) == SumSeq(SubSeq(Last.sorted_preds, 1, m))
Min(S) == CHOOSE m \in S : \A n \in S : m <= n
Max(S) == CHOOSE m \in S : \A n \in S : m >= n

\* sorted_preds are the cutoff largest entries of the row, in descending
\* order, each with its own vocabulary index.
SortedTop ==
    LET n   == Len(Last.sorted_preds)
        ids == {Last.sorted_indices[j] : j \in 1..n}
    IN  /\ Len(Last.sorted_indices) = n
        /\ Cardinality(ids) = n
        /\ \A j \in 1..n : Last.sorted_preds[j] = Last.probabilities[Last.sorted_indices[j] + 1]
        /\ \A j \in 1..(n - 1) : Last.sorted_preds[j] >= Last.sorted_preds[j + 1]
        /\ \A v \in 1..Len(Last.probabilities) :
               (v - 1) \notin ids => \A j \in 1..n : Last.probabilities[v] <= Last.sorted_preds[j]

\* The smallest non-empty prefix of the sorted entries whose mass satisfies
\* Reaches, or every sorted entry when no prefix does.
SmallestPrefix(Reaches(_)) ==
    LET n     == Len(Last.sorted_preds)
        reach == {m \in 1..n : Reaches(Mass(m))}
    IN  IF reach = {} THEN 1..n ELSE 1..Min(reach)

\* The selector's input contract: a row of mass 1 and p in (0, 1].
RowStochastic == SumSeq(Last.probabilities) = One
ValidP == sampler["A"].p \in 1..One

\* C1 as stated (on the rows and thresholds of the input contract): the
\* sorted positions the shifted mask keeps are the smallest prefix of the
\* descending-sorted entries whose cumulative mass is >= p, or every entry
\* when no prefix reaches p.
C1_KeptIsSmallestPrefixReachingP ==
    (MaskBuilt /\ RowStochastic /\ ValidP) =>
        /\ SortedTop
        /\ Kept = SmallestPrefix(LAMBDA mass : mass >= sampler["A"].p)

\* C1 amended: the sorted positions the shifted mask keeps are the smallest
\* non-empty prefix of the descending-sorted entries whose cumulative mass is
\* strictly greater than p, or every entry when no prefix exceeds p.
C1_KeptIsSmallestPrefixExceedingP ==
    MaskBuilt =>
        /\ SortedTop
        /\ Kept = SmallestPrefix(LAMBDA mass : mass > sampler["A"].p)

\* A call in which a running sum equals p before the end of the row: the
\* entry after the one that reaches p is kept too.
C1_Witness ==
    /\ Last.status = "ok"
    /\ \E m \in 1..(Len(Last.sorted_preds) - 1) :
           /\ Mass(m) = sampler["A"].p
           /\ Last.sorted_preds[m + 1] > 0
           /\ Kept = 1..(m + 1)
           /\ m + 1 < Len(Last.sorted_preds)

\* C2: the token returned for a row of positive mass is the vocabulary index
\* of a sorted position the shifted mask keeps, its input probability is not
\* zero and is at least that of the boundary token (the last one kept).
C2_TokenInNucleus ==
    (Last.status = "ok" /\ SumSeq(Last.probabilities) > 0) =>
        LET pos == Last.sorted_next_token + 1
        IN  /\ pos \in Kept
            /\ Last.output = Last.sorted_indices[pos]
            /\ Last.probabilities[Last.output + 1] > 0
            /\ Last.probabilities[Last.output + 1] >= Last.sorted_preds[Max(Kept)]

\* A call that masks out an entry of non-zero probability and draws a kept
\* position other than the first.
C2_Witness ==
    /\ Last.status = "ok"
    /\ Last.sorted_next_token >= 1
    /\ \E j \in 1..Len(Last.sorted_preds) :
           ~Last.shifted_keep_mask[j] /\ Last.sorted_preds[j] > 0

\* C3: whatever p is, a call with a k that is unset or in 1..vocab_size keeps
\* sorted position 0 in the shifted mask, and the draw does not raise.
C3_AtLeastOneKept ==
    (Called /\ sampler["A"].k \in ValidK) =>
        /\ MaskBuilt
        /\ Last.shifted_keep_mask[1]
        /\ Last.status = "ok"

\* A call with p <= 0 and a first entry above p: keep_mask is false
\* everywhere and only the shift keeps an entry.
C3_Witness ==
    /\ Last.status = "ok"
    /\ sampler["A"].p <= 0
    /\ Last.sorted_preds[1] > 0
    /\ Len(Last.sorted_preds) > 1
    /\ Kept = {1}

\* C4: two samplers started from the same seed and fed the same rows return
\* the same tokens call by call, are in the same generator state after the
\* same number of calls, and every call advances the caller's generator once.
C4_Deterministic ==
    /\ \A i \in Instances :
           seed_generator[i] =
               [seed |-> sampler[i].seed, counter |-> Len(tokens[i])]
    /\ sampler["A"].seed = sampler["B"].seed =>
           /\ \A n \in 1..Len(tokens["A"]) :
                  n <= Len(tokens["B"]) => tokens["A"][n] = tokens["B"][n]
           /\ Len(tokens["A"]) = Len(tokens["B"]) =>
                  seed_generator["A"] = seed_generator["B"]

\* Both samplers, same seed, have made two calls on the same row and the
\* second draw differs from the first.
C4_Witness ==
    /\ sampler["A"].seed = sampler["B"].seed
    /\ Len(tokens["A"]) >= 2 /\ Len(tokens["B"]) >= 2
    /\ tape[1] = tape[2]
    /\ tokens["A"][1] # tokens["A"][2]
    /\ tokens["B"][2] = tokens["A"][2]

\* C6 as stated, for the sampler: a call on a row of mass 1 with p outside
\* (0, 1] or k outside 1..vocab_size ends in an error.
C6_InvalidConfigurationRaises ==
    (Called /\ RowStochastic /\ (~ValidP \/ sampler["A"].k \notin ValidK)) =>
        Last.status = "error"
\* --------------------------------------------- claims, RotaryEmbedding
Rank == Len(inputs.shape)
Returned == call.status = "ok"
\* The axes the layer was configured with, counted from the front.
SeqAxis == Canon(layer.sequence_axis, Rank)
FeatAxis == Canon(layer.feature_axis, Rank)

\* The encoder's input contract: rank >= 2, two distinct valid axes, a
\* feature axis of even size.
ValidInput ==
    /\ call.status # "none"
    /\ Rank >= 2
    /\ ValidAxis(layer.sequence_axis, Rank)
    /\ ValidAxis(layer.feature_axis, Rank)
    /\ SeqAxis # FeatAxis
    /\ inputs.shape[FeatAxis + 1] % 2 = 0

\* C5 as stated: every valid input gives an output of the input's shape.
C5_ShapePreserved ==
    ValidInput => (Returned /\ call.output.shape = inputs.shape)

\* The coordinates of the output, and the input entry each one is computed
\* from (the input is aligned at the last axis).
OutCoords == {Unravel(call.output.shape, n - 1) : n \in 1..Prod(call.output.shape)}
OutFeat == Len(call.output.shape) - Rank + FeatAxis + 1
OutSeq == Len(call.output.shape) - Rank + SeqAxis + 1
Half == inputs.shape[FeatAxis + 1] \div 2
Circle == {TrigTable[a] : a \in 1..TurnSteps}

\* The layout call() is written for: the feature axis is the last axis.
FeatureLast == FeatAxis = Rank - 1

C9_AxesNormalized ==
    (ValidInput /\ call.embedding_shape # <<>>) =>
        /\ call.sequence_axis \in 0..(Rank - 1)
        /\ call.feature_axis \in 0..(Rank - 1)
        /\ Len(call.embedding_shape) = Rank
        /\ \A a \in 0..(Rank - 1) :
               (a # SeqAxis /\ a # FeatAxis) => call.embedding_shape[a + 1] = 1

\* C10 as stated: rotary_dim is the size of the configured feature axis, and
\* the angle tensor has the input's sizes on the sequence and feature axes.
C10_RotaryDimIsFeatureSize ==
    ValidInput =>
        /\ call.rotary_dim = inputs.shape[FeatAxis + 1]
        /\ call.embedding_shape # <<>>
        /\ Len(call.embedding_shape) = Rank
        /\ call.embedding_shape[FeatAxis + 1] = inputs.shape[FeatAxis + 1]
        /\ call.embedding_shape[SeqAxis + 1] = inputs.shape[SeqAxis + 1]
====
